---- MODULE Spec2Model ----
(***************************************************************************)
(* Model of gpx2maps: the coordinate simplifier of MapsConverter, the      *)
(* source adapters (RouteYou, Wikiloc, Malmedy Tourism) with their search  *)
(* and download operations, and the CLI download dispatch.                 *)
(*                                                                         *)
(* Text is modelled as a sequence of one-character strings, so that        *)
(* prefix tests, regular-expression searches, case conversion and sorting  *)
(* are computed character by character as the Python code computes them.   *)
(* One call of an operation is one action; the requests it sends and the   *)
(* files it writes during the call are recorded in net and disk.           *)
(***************************************************************************)
EXTENDS Integers, Sequences, FiniteSets, TLC

VARIABLES pc, op, inp, out, net, disk

vars == <<pc, op, inp, out, net, disk>>

(* ----------------------------- bounds ---------------------------------- *)
MaxLen == 5
MaxN == 4
MaxBlocks == 2
MaxHeadings == 2

(* ------------------------------- text ---------------------------------- *)
\* Python str values are sequences of one-character strings; None and the
\* empty string are both <<>> (the code only tests them with "not x").
UpperLetters ==
  <<"A","B","C","D","E","F","G","H","I","J","K","L","M",
    "N","O","P","Q","R","S","T","U","V","W","X","Y","Z">>

LowerLetters ==
  <<"a","b","c","d","e","f","g","h","i","j","k","l","m",
    "n","o","p","q","r","s","t","u","v","w","x","y","z">>

DigitChars == <<"0","1","2","3","4","5","6","7","8","9">>

IndexIn(c, seq) ==
  IF \E i \in 1..Len(seq) : seq[i] = c
  THEN CHOOSE i \in 1..Len(seq) : seq[i] = c
  ELSE 0

IsDigit(c) == IndexIn(c, DigitChars) > 0
IsLetter(c) == IndexIn(c, UpperLetters) > 0 \/ IndexIn(c, LowerLetters) > 0
\* the characters \s matches and strip() removes
SpaceChars == {" ", "\t", "\n", "\r", "\f"}
IsSpace(c) == c \in SpaceChars
DigitVal(c) == IndexIn(c, DigitChars) - 1

\* code point of a character (str comparison in Python is by code point)
Ord(c) ==
  IF IndexIn(c, UpperLetters) > 0 THEN 64 + IndexIn(c, UpperLetters)
  ELSE IF IndexIn(c, LowerLetters) > 0 THEN 96 + IndexIn(c, LowerLetters)
  ELSE IF IsDigit(c) THEN 48 + DigitVal(c)
  ELSE CASE c = "\t" -> 9 [] c = "\n" -> 10 [] c = "\r" -> 13
         [] c = " " -> 32 [] c = "!" -> 33 [] c = "#" -> 35 [] c = "&" -> 38
         [] c = "(" -> 40 [] c = ")" -> 41 [] c = "+" -> 43 [] c = "," -> 44
         [] c = "-" -> 45 [] c = "." -> 46 [] c = "/" -> 47 [] c = ":" -> 58
         [] c = ";" -> 59 [] c = "<" -> 60 [] c = "=" -> 61 [] c = ">" -> 62
         [] c = "?" -> 63 [] c = "@" -> 64 [] c = "[" -> 91 [] c = "]" -> 93
         [] c = "_" -> 95 [] OTHER -> 127

ToUpperChar(c) ==
  IF IndexIn(c, LowerLetters) > 0 THEN UpperLetters[IndexIn(c, LowerLetters)] ELSE c

ToLowerChar(c) ==
  IF IndexIn(c, UpperLetters) > 0 THEN LowerLetters[IndexIn(c, UpperLetters)] ELSE c

StrUpper(s) == [i \in 1..Len(s) |-> ToUpperChar(s[i])]
StrLower(s) == [i \in 1..Len(s) |-> ToLowerChar(s[i])]

\* s.startswith(p), s.endswith(p)
StartsWith(s, p) == Len(p) <= Len(s) /\ SubSeq(s, 1, Len(p)) = p
EndsWith(s, p) == Len(p) <= Len(s) /\ SubSeq(s, Len(s) - Len(p) + 1, Len(s)) = p

\* position (1-based) of the first occurrence of sub in s at or after from; 0 if none
Find(s, sub, from) ==
  LET hits == {i \in from..(Len(s) - Len(sub) + 1) : SubSeq(s, i, i + Len(sub) - 1) = sub}
  IN  IF hits = {} THEN 0 ELSE CHOOSE i \in hits : \A j \in hits : i <= j

\* sub in s
Contains(s, sub) == Find(s, sub, 1) > 0

DigitSet == {DigitChars[i] : i \in 1..Len(DigitChars)}

\* end (inclusive) of the longest run of characters of the class chars that starts
\* at i; i - 1 when s[i] is not in the class
RunEnd(s, i, chars) ==
  LET stops == {j \in i..Len(s) : s[j] \notin chars}
  IN  IF stops = {} THEN Len(s) ELSE (CHOOSE j \in stops : \A k \in stops : j <= k) - 1

\* the same for the negated class [^...]
RunEndNot(s, i, chars) ==
  LET stops == {j \in i..Len(s) : s[j] \in chars}
  IN  IF stops = {} THEN Len(s) ELSE (CHOOSE j \in stops : \A k \in stops : j <= k) - 1

\* s.strip()
Strip(s) ==
  LET keep == {i \in 1..Len(s) : ~IsSpace(s[i])}
  IN  IF keep = {} THEN <<>>
      ELSE SubSeq(s, CHOOSE i \in keep : \A j \in keep : i <= j,
                     CHOOSE i \in keep : \A j \in keep : i >= j)

\* s.replace(old, new) for a non-empty old: every non-overlapping occurrence, left to right
RECURSIVE Replace(_, _, _)
Replace(s, old, new) ==
  LET i == Find(s, old, 1)
  IN  IF i = 0 THEN s
      ELSE SubSeq(s, 1, i - 1) \o new \o Replace(SubSeq(s, i + Len(old), Len(s)), old, new)

\* s.split(sep)[-1] for a one-character sep
SplitLast(s, sep) ==
  LET hits == {i \in 1..Len(s) : s[i] = sep}
  IN  IF hits = {} THEN s
      ELSE SubSeq(s, (CHOOSE i \in hits : \A j \in hits : i >= j) + 1, Len(s))

\* s.rstrip(ch)
RStrip(s, ch) ==
  LET keep == {i \in 1..Len(s) : s[i] # ch}
  IN  IF keep = {} THEN <<>> ELSE SubSeq(s, 1, CHOOSE i \in keep : \A j \in keep : i >= j)

\* s.title(): a letter is upper-cased after a non-letter, lower-cased after a letter
StrTitle(s) ==
  [i \in 1..Len(s) |->
     IF i = 1 \/ ~IsLetter(s[i - 1]) THEN ToUpperChar(s[i]) ELSE ToLowerChar(s[i])]

\* a < b for str
RECURSIVE LexLess(_, _)
LexLess(a, b) ==
  IF b = <<>> THEN FALSE
  ELSE IF a = <<>> THEN TRUE
  ELSE IF Ord(a[1]) # Ord(b[1]) THEN Ord(a[1]) < Ord(b[1])
  ELSE LexLess(Tail(a), Tail(b))

\* float(s) for a text of digits and dots: the value num/den, or a ValueError
RECURSIVE DigitsValue(_)
DigitsValue(s) ==
  IF s = <<>> THEN 0 ELSE 10 * DigitsValue(SubSeq(s, 1, Len(s) - 1)) + DigitVal(s[Len(s)])

RECURSIVE Pow10(_)
Pow10(n) == IF n = 0 THEN 1 ELSE 10 * Pow10(n - 1)

ParseFloat(s) ==
  LET dots == {i \in 1..Len(s) : s[i] = "."}
      digs == {i \in 1..Len(s) : IsDigit(s[i])}
  IN  IF digs = {} \/ Cardinality(dots) > 1 \/ digs \cup dots # 1..Len(s)
      THEN [ok |-> FALSE, num |-> 0, den |-> 1]
      ELSE IF dots = {}
      THEN [ok |-> TRUE, num |-> DigitsValue(s), den |-> 1]
      ELSE LET d == CHOOSE i \in dots : TRUE
           IN  [ok |-> TRUE,
                num |-> DigitsValue(SubSeq(s, 1, d - 1) \o SubSeq(s, d + 1, Len(s))),
                den |-> Pow10(Len(s) - d)]

\* a <= b, a > b for two floats num/den
FloatLE(a, b) == a.num * b.den <= b.num * a.den

FloatGT_OrEqual(a, b) == a.num * b.den >= b.num * a.den

FloatGT(a, b) == a.num * b.den > b.num * a.den

(* ----------------------------- literals -------------------------------- *)
RY_BASE_URL ==
  <<"h","t","t","p","s",":","/","/","w","w","w",".","r","o","u","t","e","y",
    "o","u",".","c","o","m">>
WL_BASE_URL ==
  <<"h","t","t","p","s",":","/","/","w","w","w",".","w","i","k","i","l","o",
    "c",".","c","o","m">>
MDY_BASE_URL ==
  <<"h","t","t","p","s",":","/","/","w","w","w",".","m","a","l","m","e","d",
    "y","-","t","o","u","r","i","s","m","e",".","b","e">>
SIGNPOSTED_WALKS_URL ==
  <<"h","t","t","p","s",":","/","/","w","w","w",".","m","a","l","m","e","d",
    "y","-","t","o","u","r","i","s","m","e",".","b","e","/","e","n","/","t",
    "y","p","e","-","a","-","p","i","e","d","/","s","i","g","n","p","o","s",
    "t","e","d","-","w","a","l","k","s","/">>
RY_Title1 ==
  <<"M","D","Y","-","0","1",":"," ","D","E","M","O"," ","-"," ","M","a","l",
    "m","e","d","y"," ","C","i","t","y"," ","W","a","l","k"," ","(","S","A",
    "M","P","L","E"," ","R","O","U","T","E",")">>
RY_Title2 ==
  <<"M","D","Y","-","0","2",":"," ","D","E","M","O"," ","-"," ","H","i","g",
    "h"," ","F","e","n","s"," ","T","r","a","i","l"," ","(","S","A","M","P",
    "L","E"," ","R","O","U","T","E",")">>
RY_Title3 ==
  <<"M","D","Y","-","0","3",":"," ","D","E","M","O"," ","-"," ","W","a","r",
    "c","h","e"," ","V","a","l","l","e","y"," ","L","o","o","p"," ","(","S",
    "A","M","P","L","E"," ","R","O","U","T","E",")">>
RY_Path1 ==
  <<"/","e","n","-","b","e","/","r","o","u","t","e","/","v","i","e","w","/",
    "m","a","l","m","e","d","y","-","c","i","t","y","-","w","a","l","k">>
RY_Path2 ==
  <<"/","e","n","-","b","e","/","r","o","u","t","e","/","v","i","e","w","/",
    "h","i","g","h","-","f","e","n","s","-","t","r","a","i","l">>
RY_Path3 ==
  <<"/","e","n","-","b","e","/","r","o","u","t","e","/","v","i","e","w","/",
    "w","a","r","c","h","e","-","v","a","l","l","e","y","-","l","o","o","p">>
WL_Title1 ==
  <<"M","D","Y","-","0","4",":"," ","D","E","M","O"," ","-"," ","B","a","y",
    "e","h","o","n"," ","W","a","t","e","r","f","a","l","l"," ","W","a","l",
    "k"," ","(","S","A","M","P","L","E"," ","R","O","U","T","E",")">>
WL_Title2 ==
  <<"M","D","Y","-","0","5",":"," ","D","E","M","O"," ","-"," ","S","i","g",
    "n","a","l"," ","d","e"," ","B","o","t","r","a","n","g","e"," ","(","S",
    "A","M","P","L","E"," ","R","O","U","T","E",")">>
WL_Title3 ==
  <<"M","D","Y","-","0","6",":"," ","D","E","M","O"," ","-"," ","R","e","i",
    "n","h","a","r","d","s","t","e","i","n"," ","C","a","s","t","l","e"," ",
    "R","o","u","t","e"," ","(","S","A","M","P","L","E"," ","R","O","U","T",
    "E",")">>
WL_Path1 ==
  <<"/","w","i","k","i","l","o","c","/","v","i","e","w",".","d","o","?","i",
    "d","=","b","a","y","e","h","o","n","-","w","a","t","e","r","f","a","l",
    "l">>
WL_Path2 ==
  <<"/","w","i","k","i","l","o","c","/","v","i","e","w",".","d","o","?","i",
    "d","=","s","i","g","n","a","l","-","b","o","t","r","a","n","g","e">>
WL_Path3 ==
  <<"/","w","i","k","i","l","o","c","/","v","i","e","w",".","d","o","?","i",
    "d","=","r","e","i","n","h","a","r","d","s","t","e","i","n","-","c","a",
    "s","t","l","e">>
RY_SampleName ==
  <<"D","E","M","O"," ","R","o","u","t","e","Y","o","u"," ","R","o","u","t",
    "e"," ","(","S","A","M","P","L","E",")">>
WL_SampleName ==
  <<"D","E","M","O"," ","W","i","k","i","l","o","c"," ","R","o","u","t","e",
    " ","(","S","A","M","P","L","E",")">>
RouteViewRe ==
  <<"/","r","o","u","t","e","/","v","i","e","w","/">>
IdEqRe ==
  <<"i","d","=">>
RouteYouDomain ==
  <<"r","o","u","t","e","y","o","u",".","c","o","m">>
WikilocDomain ==
  <<"w","i","k","i","l","o","c",".","c","o","m">>
RouteYouPrefix ==
  <<"r","o","u","t","e","y","o","u","_">>
WikilocPrefix ==
  <<"w","i","k","i","l","o","c","_">>
MalmedyPrefix ==
  <<"m","a","l","m","e","d","y","_">>
GpxExt ==
  <<".","g","p","x">>
GpxDir ==
  <<"g","p","x","_","f","i","l","e","s">>
Http ==
  <<"h","t","t","p">>
Mdy ==
  <<"M","D","Y">>
Km ==
  <<"k","m">>
KmLabel ==
  <<"K","M">>
NotAvailable ==
  <<"N","/","A">>
AmpEntity ==
  <<"&","a","m","p",";">>
ExporterId ==
  <<"c","d","f","_","e","x","p","o","r","t","e","r","G","P","X">>
GpxWord ==
  <<"g","p","x">>
XmlWord ==
  <<"x","m","l">>
CirkwiWord ==
  <<"c","i","r","k","w","i">>
XmlDecl ==
  <<"<","?","x","m","l">>
GpxTag ==
  <<"<","g","p","x">>

(* ------------------------- coordinate simplifier ----------------------- *)
Lats == {50, 51}
Lons == {6}
Points == Lats \X Lons

RECURSIVE SeqsUpTo(_, _)
SeqsUpTo(S, n) ==
  IF n = 0 THEN {<<>>}
  ELSE LET shorter == SeqsUpTo(S, n - 1)
       IN  shorter \cup {Append(s, x) : s \in {t \in shorter : Len(t) = n - 1}, x \in S}

RECURSIVE SampleLoop(_, _, _, _)
SampleLoop(points, i, step, simplified) ==
  IF i < Len(points) - 1
  THEN SampleLoop(points, i + step, step, Append(simplified, points[i + 1]))
  ELSE simplified

SimplifyPoints_NoLast(points, max_points) ==
  IF Len(points) <= max_points THEN [raised |-> "none", pts |-> points]
  ELSE IF max_points - 1 = 0 THEN [raised |-> "ZeroDivisionError", pts |-> <<>>]
  ELSE LET step == Len(points) \div (max_points - 1)
       IN  [raised |-> "none", pts |-> SampleLoop(points, step, step, <<points[1]>>)]

SimplifyPoints_StrictLess(points, max_points) ==
  IF Len(points) < max_points THEN [raised |-> "none", pts |-> points]
  ELSE IF max_points - 1 = 0 THEN [raised |-> "ZeroDivisionError", pts |-> <<>>]
  ELSE LET step == Len(points) \div (max_points - 1)
           sampled == SampleLoop(points, step, step, <<points[1]>>)
       IN  [raised |-> "none",
            pts |-> IF sampled[Len(sampled)] # points[Len(points)]
                    THEN Append(sampled, points[Len(points)])
                    ELSE sampled]

SimplifyPoints(points, max_points) ==
  IF Len(points) <= max_points THEN [raised |-> "none", pts |-> points]
  ELSE IF max_points - 1 = 0 THEN [raised |-> "ZeroDivisionError", pts |-> <<>>]
  ELSE LET step == Len(points) \div (max_points - 1)
           sampled == SampleLoop(points, step, step, <<points[1]>>)
       IN  [raised |-> "none",
            pts |-> IF sampled[Len(sampled)] # points[Len(points)]
                    THEN Append(sampled, points[Len(points)])
                    ELSE sampled]

(* --------------------------- shared helpers ---------------------------- *)
\* re.search(lit + '([^stop]+)', s): group 1 of the leftmost match, <<>> when None
ReLiteralGroup(s, lit, stop) ==
  LET starts == {i \in 1..(Len(s) - Len(lit)) :
                   /\ SubSeq(s, i, i + Len(lit) - 1) = lit
                   /\ s[i + Len(lit)] # stop}
  IN  IF starts = {} THEN <<>>
      ELSE LET b == (CHOOSE i \in starts : \A j \in starts : i <= j) + Len(lit)
           IN  SubSeq(s, b, RunEndNot(s, b, {stop}))

\* urllib.parse.urlparse(url): scheme and netloc, or ValueError (unbalanced bracket)
UrlParse(url) ==
  LET colon == Find(url, <<":">>, 1)
      hasScheme == /\ colon > 1
                   /\ IsLetter(url[1])
                   /\ \A i \in 1..(colon - 1) :
                        IsLetter(url[i]) \/ IsDigit(url[i]) \/ url[i] \in {"+", "-", "."}
      rest == IF hasScheme THEN SubSeq(url, colon + 1, Len(url)) ELSE url
      hasNetloc == StartsWith(rest, <<"/", "/">>)
      netloc == IF hasNetloc
                THEN SubSeq(rest, 3, RunEndNot(rest, 3, {"/", "?", "#"}))
                ELSE <<>>
  IN  [raised |-> Contains(netloc, <<"[">>) # Contains(netloc, <<"]">>),
       scheme |-> IF hasScheme THEN StrLower(SubSeq(url, 1, colon - 1)) ELSE <<>>,
       netloc |-> netloc]

\* the eight track points of the sample file, in 1e-4 degrees
SampleTrkpts ==
  << <<504233, 60294>>, <<504250, 60310>>, <<504270, 60330>>, <<504285, 60345>>,
     <<504290, 60320>>, <<504275, 60300>>, <<504250, 60285>>, <<504233, 60294>> >>

\* BaseScraper._create_sample_gpx: the template with name interpolated, unescaped,
\* into the metadata name and the track name; route_id is not used
CreateSampleGpx(route_id, name) ==
  [kind |-> "sample", metadata_name |-> name, trk_name |-> name, trkpts |-> SampleTrkpts]

\* BaseScraper._save_gpx: os.path.join('gpx_files', filename) and one write
SaveGpxPath(filename) ==
  IF StartsWith(filename, <<"/">>) THEN filename ELSE GpxDir \o <<"/">> \o filename

SaveGpx(content, filename) ==
  [path |-> SaveGpxPath(filename), content |-> content]

\* GPXParser.parse of a saved file: gpxpy rejects text that is not well-formed XML
\* (a bare "<" or "&" in character data); otherwise the track points in order
GPXParse(content) ==
  IF content.kind = "sample"
  THEN IF \E i \in 1..Len(content.metadata_name) : content.metadata_name[i] \in {"<", "&"}
       THEN [raised |-> "GPXXMLSyntaxException", points |-> <<>>]
       ELSE [raised |-> "none", points |-> content.trkpts]
  ELSE [raised |-> "unknown", points |-> <<>>]

(* --------------------------- static adapters --------------------------- *)
RY_sample_routes ==
  << [title |-> RY_Title1, distance |-> <<"5", ".", "2">>,
      url |-> RY_BASE_URL \o RY_Path1, source |-> "RouteYou"],
     [title |-> RY_Title2, distance |-> <<"1", "2", ".", "5">>,
      url |-> RY_BASE_URL \o RY_Path2, source |-> "RouteYou"],
     [title |-> RY_Title3, distance |-> <<"8", ".", "3">>,
      url |-> RY_BASE_URL \o RY_Path3, source |-> "RouteYou"] >>

WL_sample_routes ==
  << [title |-> WL_Title1, distance |-> <<"6", ".", "8">>,
      url |-> WL_BASE_URL \o WL_Path1, source |-> "Wikiloc"],
     [title |-> WL_Title2, distance |-> <<"9", ".", "2">>,
      url |-> WL_BASE_URL \o WL_Path2, source |-> "Wikiloc"],
     [title |-> WL_Title3, distance |-> <<"7", ".", "5">>,
      url |-> WL_BASE_URL \o WL_Path3, source |-> "Wikiloc"] >>

\* the filter loop of RouteYouScraper.search and WikilocScraper.search
RECURSIVE StaticFilter(_, _, _, _)
StaticFilter(sample_routes, distance_km, prefix, routes) ==
  IF sample_routes = <<>> THEN routes
  ELSE LET route == Head(sample_routes)
           d == ParseFloat(route.distance)
           keep == /\ ~(prefix # <<>> /\ ~StartsWith(route.title, prefix))
                   /\ (d.ok => FloatLE(d, distance_km))
       IN  StaticFilter(Tail(sample_routes), distance_km, prefix,
                        IF keep THEN Append(routes, route) ELSE routes)

RouteYou_search(location, distance_km, prefix) ==
  [raised |-> "none", ret |-> StaticFilter(RY_sample_routes, distance_km, prefix, <<>>),
   net |-> <<>>, disk |-> <<>>]

Wikiloc_search(location, distance_km, prefix) ==
  [raised |-> "none", ret |-> StaticFilter(WL_sample_routes, distance_km, prefix, <<>>),
   net |-> <<>>, disk |-> <<>>]

RouteYou_download(url, output_filename) ==
  LET route_id == ReLiteralGroup(url, RouteViewRe, "/")
      filename == IF output_filename = <<>>
                  THEN RouteYouPrefix \o route_id \o GpxExt
                  ELSE output_filename
  IN  IF route_id = <<>>
      THEN [raised |-> "ValueError", ret |-> <<>>, net |-> <<>>, disk |-> <<>>]
      ELSE [raised |-> "none", ret |-> SaveGpxPath(filename), net |-> <<>>,
            disk |-> <<SaveGpx(CreateSampleGpx(route_id, RY_SampleName), filename)>>]

Wikiloc_download(url, output_filename) ==
  LET route_id == ReLiteralGroup(url, IdEqRe, "&")
      filename == IF output_filename = <<>>
                  THEN WikilocPrefix \o route_id \o GpxExt
                  ELSE output_filename
  IN  IF route_id = <<>>
      THEN [raised |-> "ValueError", ret |-> <<>>, net |-> <<>>, disk |-> <<>>]
      ELSE [raised |-> "none", ret |-> SaveGpxPath(filename), net |-> <<>>,
            disk |-> <<SaveGpx(CreateSampleGpx(route_id, WL_SampleName), filename)>>]

\* cli.download_route: the scraper is chosen from the host name, then called
download_route(url, output) ==
  LET parsed_url == UrlParse(url)
      hostname == StrLower(parsed_url.netloc)
      scraper == IF EndsWith(hostname, RouteYouDomain) \/ hostname = RouteYouDomain
                 THEN "RouteYou"
                 ELSE IF EndsWith(hostname, WikilocDomain) \/ hostname = WikilocDomain
                 THEN "Wikiloc"
                 ELSE "none"
      r == IF scraper = "RouteYou" THEN RouteYou_download(url, output)
           ELSE Wikiloc_download(url, output)
  IN  IF parsed_url.raised
      THEN [raised |-> "none", ret |-> 1, msg |-> "Invalid URL format",
            scraper |-> "none", net |-> <<>>, disk |-> <<>>]
      ELSE IF scraper = "none"
      THEN [raised |-> "none", ret |-> 1, msg |-> "Unsupported URL",
            scraper |-> "none", net |-> <<>>, disk |-> <<>>]
      ELSE IF r.raised # "none"
      THEN [raised |-> "none", ret |-> 1, msg |-> "Error",
            scraper |-> scraper, net |-> r.net, disk |-> r.disk]
      ELSE [raised |-> "none", ret |-> 0, msg |-> "Downloaded",
            scraper |-> scraper, net |-> r.net, disk |-> r.disk]

(* ------------------------- Malmedy Tourism adapter --------------------- *)
RemoveSpaces(s) == SelectSeq(s, LAMBDA c : ~IsSpace(c))

\* re.search(r'(MDY\s*\d+)', text, re.IGNORECASE): the leftmost match
MdyMatch(text) ==
  LET AfterSpaces(i) == RunEnd(text, i + 3, SpaceChars) + 1
      starts == {i \in 1..(Len(text) - 3) :
                   /\ StrUpper(SubSeq(text, i, i + 2)) = Mdy
                   /\ AfterSpaces(i) <= Len(text)
                   /\ IsDigit(text[AfterSpaces(i)])}
      first == CHOOSE i \in starts : \A j \in starts : i <= j
  IN  IF starts = {} THEN [found |-> FALSE, first |-> 0, last |-> 0]
      ELSE [found |-> TRUE, first |-> first,
            last |-> RunEnd(text, AfterSpaces(first), DigitSet)]

NormalizeId_NoUpper(raw) == RemoveSpaces(raw)

\* re.sub(r'\s+', '', raw).upper()
NormalizeId(raw) == StrUpper(RemoveSpaces(raw))

\* the identifier a heading text gives: the match of the pattern, normalized;
\* <<>> when the pattern does not match
ExtractId(text) ==
  LET mdy_match == MdyMatch(text)
  IN  IF mdy_match.found
      THEN NormalizeId(SubSeq(text, mdy_match.first, mdy_match.last))
      ELSE <<>>

\* re.search(r'([\d,]+)\s*km', text, re.IGNORECASE): group 1, <<>> when None
DistanceMatch(text) ==
  LET NumChars == DigitSet \cup {","}
      AfterNum(i) == RunEnd(text, RunEnd(text, i, NumChars) + 1, SpaceChars) + 1
      starts == {i \in 1..Len(text) :
                   /\ text[i] \in NumChars
                   /\ AfterNum(i) + 1 <= Len(text)
                   /\ StrLower(SubSeq(text, AfterNum(i), AfterNum(i) + 1)) = Km}
      first == CHOOSE i \in starts : \A j \in starts : i <= j
  IN  IF starts = {} THEN <<>> ELSE SubSeq(text, first, RunEnd(text, first, NumChars))

\* isinstance(exc, cls) for the two exception classes the handlers name
IsInstance(exc, cls) == exc # "none" /\ (cls = "Exception" \/ exc = cls)

\* the two except clauses that close search and download: what still propagates
OuterExcept(exc) ==
  IF IsInstance(exc, "RequestException") THEN "none"
  ELSE IF IsInstance(exc, "Exception") THEN "none"
  ELSE exc

InnerExcept_NoHandler(exc) == exc

\* the except clause around one listing block, and around the artifact fetch
InnerExcept(exc) == IF IsInstance(exc, "Exception") THEN "none" ELSE exc

\* the loop over the route links of the listing page; exc is the exception that
\* leaves the loop, if any
RECURSIVE ListingLoop(_, _, _, _)
ListingLoop(route_links, distance_km, prefix, routes) ==
  IF route_links = <<>> THEN [routes |-> routes, exc |-> "none"]
  ELSE LET link == Head(route_links)
           route_url == IF StartsWith(link.href, Http) THEN link.href
                        ELSE MDY_BASE_URL \o link.href
           title_text == link.h3
           mdy_match == MdyMatch(title_text)
           route_id_raw == SubSeq(title_text, mdy_match.first, mdy_match.last)
           route_id == NormalizeId(route_id_raw)
           route_name == Strip(Replace(title_text, route_id_raw, <<>>))
           distance_str == IF Contains(link.th, KmLabel) /\ link.has_td
                           THEN Replace(DistanceMatch(link.td), <<",">>, <<".">>)
                           ELSE <<>>
           distance_float == ParseFloat(distance_str)
           skipped == \/ link.raises # "none"
                      \/ ~link.has_table
                      \/ ~link.has_h3
                      \/ ~mdy_match.found
                      \/ (prefix # <<>> /\ ~StartsWith(route_id, prefix))
                      \/ /\ distance_str # <<>>
                         /\ distance_float.ok
                         /\ FloatGT(distance_float, distance_km)
           route == [title |-> route_id \o <<" ">> \o route_name,
                     distance |-> IF distance_str # <<>> THEN distance_str ELSE NotAvailable,
                     url |-> route_url,
                     source |-> "Malmedy Tourism",
                     route_id |-> route_id]
       IN  IF InnerExcept(link.raises) # "none"
           THEN [routes |-> routes, exc |-> link.raises]
           ELSE ListingLoop(Tail(route_links), distance_km, prefix,
                            IF skipped THEN routes ELSE Append(routes, route))

SortByRouteId_Unsorted(routes) == routes

\* routes.sort(key=lambda x: x.get('route_id', '')): stable, ascending
RECURSIVE SortByRouteId(_)
SortByRouteId(routes) ==
  IF routes = <<>> THEN <<>>
  ELSE LET n == Len(routes)
           x == routes[n]
           sorted == SortByRouteId(SubSeq(routes, 1, n - 1))
           after == {i \in 1..Len(sorted) : LexLess(x.route_id, sorted[i].route_id)}
           pos == IF after = {} THEN Len(sorted) + 1
                  ELSE CHOOSE i \in after : \A j \in after : i <= j
       IN  SubSeq(sorted, 1, pos - 1) \o <<x>> \o SubSeq(sorted, pos, Len(sorted))

Get(url) == [method |-> "GET", url |-> url]

SessionGet_RetryOnFailure(requests, url, status) ==
  IF status = "RequestException"
  THEN requests \o <<[method |-> "GET", url |-> url], [method |-> "GET", url |-> url]>>
  ELSE Append(requests, [method |-> "GET", url |-> url])

\* self.session.get(url, timeout=30) after the requests already issued: one
\* request whatever the answer (status); the session mounts no retrying adapter
SessionGet(requests, url, status) == Append(requests, Get(url))

\* MalmedyTourismScraper.search; page is what the listing fetch and parse give
Malmedy_search(location, distance_km, prefix, page) ==
  LET loop == IF page.status = "none"
              THEN ListingLoop(page.route_links, distance_km, prefix, <<>>)
              ELSE [routes |-> <<>>, exc |-> page.status]
  IN  [raised |-> OuterExcept(loop.exc),
       ret |-> IF loop.exc = "none" THEN SortByRouteId(loop.routes) ELSE loop.routes,
       net |-> SessionGet(<<>>, SIGNPOSTED_WALKS_URL, page.status),
       disk |-> <<>>]

\* soup.find('h1') and the loop over find_all(['h1', 'h2', 'h3']): id and name
RECURSIVE FirstMdyHeading(_)
FirstMdyHeading(headings) ==
  IF headings = <<>> THEN [route_id |-> <<>>, route_name |-> <<>>]
  ELSE LET heading_text == Head(headings).text
           mdy_match == MdyMatch(heading_text)
       IN  IF mdy_match.found
           THEN [route_id |-> NormalizeId(SubSeq(heading_text, mdy_match.first, mdy_match.last)),
                 route_name |-> Strip(heading_text)]
           ELSE FirstMdyHeading(Tail(headings))

ExtractHeading(headings) ==
  LET h1s == SelectSeq(headings, LAMBDA h : h.tag = "h1")
      fromH1 == IF h1s = <<>> THEN [route_id |-> <<>>, route_name |-> <<>>]
                ELSE FirstMdyHeading(<<Head(h1s)>>)
  IN  IF fromH1.route_id # <<>> THEN fromH1 ELSE FirstMdyHeading(headings)

\* the three lookups of the export link, in order; found is FALSE when all fail
FindGpxLink(anchors) ==
  LET byId == SelectSeq(anchors, LAMBDA a : a.id = ExporterId)
      byClass == SelectSeq(anchors, LAMBDA a : Contains(StrLower(a.class), GpxWord))
      byHref == SelectSeq(anchors, LAMBDA a :
                  LET h == StrLower(a.href)
                      c == Find(h, CirkwiWord, 1)
                  IN  c > 0 /\ Find(h, GpxWord, c + Len(CirkwiWord)) > 0)
  IN  IF byId # <<>> THEN [found |-> TRUE, href |-> Head(byId).href]
      ELSE IF byClass # <<>> THEN [found |-> TRUE, href |-> Head(byClass).href]
      ELSE IF byHref # <<>> THEN [found |-> TRUE, href |-> Head(byHref).href]
      ELSE [found |-> FALSE, href |-> <<>>]

IsGpxResponse_AcceptAll(gpx_response) == TRUE

\* the check that the fetched body is a GPX file
IsGpxResponse(gpx_response) ==
  LET content_type == StrLower(gpx_response.content_type)
  IN  \/ Contains(content_type, GpxWord)
      \/ Contains(content_type, XmlWord)
      \/ StartsWith(Strip(gpx_response.text), XmlDecl)
      \/ Contains(StrLower(gpx_response.text), GpxTag)

\* the file name generated before the fetched artifact is saved
LiveFilename(output_filename, route_id, url) ==
  IF output_filename # <<>> THEN output_filename
  ELSE IF route_id # <<>> THEN MalmedyPrefix \o StrLower(route_id) \o GpxExt
  ELSE MalmedyPrefix \o RStrip(SplitLast(url, "/"), "/") \o GpxExt

FallbackFilename_SlugOnly(output_filename, route_id, route_slug) ==
  IF output_filename # <<>> THEN output_filename
  ELSE MalmedyPrefix \o route_slug \o GpxExt

\* the file name generated in the fallback
FallbackFilename(output_filename, route_id, route_slug) ==
  IF output_filename # <<>> THEN output_filename
  ELSE IF route_id # <<>> THEN MalmedyPrefix \o StrLower(route_id) \o GpxExt
  ELSE MalmedyPrefix \o route_slug \o GpxExt

\* MalmedyTourismScraper.download; page is what the detail fetch and parse give,
\* art what the fetch of the export link gives
Malmedy_download(url, output_filename, page, art) ==
  LET h == IF page.status = "none" THEN ExtractHeading(page.headings)
           ELSE [route_id |-> <<>>, route_name |-> <<>>]
      route_id == h.route_id
      gpx_link == IF page.status = "none" THEN FindGpxLink(page.anchors)
                  ELSE [found |-> FALSE, href |-> <<>>]
      gpx_url == Replace(IF StartsWith(gpx_link.href, Http) THEN gpx_link.href
                         ELSE MDY_BASE_URL \o gpx_link.href,
                         AmpEntity, <<"&">>)
      live == gpx_link.found /\ art.status = "none" /\ IsGpxResponse(art)
      escaped == IF page.status # "none" THEN OuterExcept(page.status)
                 ELSE IF gpx_link.found THEN OuterExcept(InnerExcept(art.status))
                 ELSE "none"
      route_slug == RStrip(SplitLast(url, "/"), "/")
      name0 == IF h.route_name = <<>>
               THEN StrTitle(Replace(route_slug, <<"-">>, <<" ">>))
               ELSE h.route_name
      route_name == IF route_id # <<>> /\ ~StartsWith(name0, route_id)
                    THEN route_id \o <<" ">> \o name0
                    ELSE name0
      live_filename == LiveFilename(output_filename, route_id, url)
      filename == FallbackFilename(output_filename, route_id, route_slug)
      requests == IF gpx_link.found
                  THEN SessionGet(SessionGet(<<>>, url, page.status), gpx_url, art.status)
                  ELSE SessionGet(<<>>, url, page.status)
  IN  IF escaped # "none"
      THEN [raised |-> escaped, ret |-> <<>>, net |-> requests, disk |-> <<>>]
      ELSE IF live
      THEN [raised |-> "none", ret |-> SaveGpxPath(live_filename), net |-> requests,
            disk |-> <<SaveGpx([kind |-> "fetched", body |-> art.text], live_filename)>>]
      ELSE [raised |-> "none", ret |-> SaveGpxPath(filename), net |-> requests,
            disk |-> <<SaveGpx(CreateSampleGpx(route_slug, route_name), filename)>>]

(* ------------------------------ search_routes -------------------------- *)
\* the sources list built from args.source, in the order of the two tests
Sources(source) ==
  (IF source \in {"routeyou", "all"} THEN <<"RouteYou">> ELSE <<>>)
    \o (IF source \in {"wikiloc", "all"} THEN <<"Wikiloc">> ELSE <<>>)

CallSiteExcept_NoHandler(exc) == exc

\* the except clause around scraper.search in the loop of search_routes
CallSiteExcept(exc) == IF IsInstance(exc, "Exception") THEN "none" ELSE exc

\* scraper.search of the named source; faults[name] is the exception that the
\* call raises in this run, "none" when it returns
SourceSearch(name, location, distance_km, prefix, faults) ==
  IF faults[name] # "none"
  THEN [raised |-> faults[name], ret |-> <<>>, net |-> <<>>, disk |-> <<>>]
  ELSE IF name = "RouteYou" THEN RouteYou_search(location, distance_km, prefix)
  ELSE Wikiloc_search(location, distance_km, prefix)

\* the loop over sources; calls lists the sources whose search was invoked, exc
\* is the exception that leaves the loop, if any
RECURSIVE SearchLoop(_, _, _, _, _, _, _)
SearchLoop(sources, location, distance_km, prefix, faults, all_routes, calls) ==
  IF sources = <<>> THEN [all_routes |-> all_routes, calls |-> calls, exc |-> "none"]
  ELSE LET name == Head(sources)
           r == SourceSearch(name, location, distance_km, prefix, faults)
       IN  IF CallSiteExcept(r.raised) # "none"
           THEN [all_routes |-> all_routes, calls |-> Append(calls, name), exc |-> r.raised]
           ELSE SearchLoop(Tail(sources), location, distance_km, prefix, faults,
                           IF r.raised = "none" THEN all_routes \o r.ret ELSE all_routes,
                           Append(calls, name))

\* search_routes: exit status 1 when nothing was found, else 0
search_routes(location, distance_km, prefix, source, faults) ==
  LET loop == SearchLoop(Sources(source), location, distance_km, prefix, faults, <<>>, <<>>)
  IN  [raised |-> loop.exc,
       ret |-> IF loop.exc # "none" THEN -1 ELSE IF loop.all_routes = <<>> THEN 1 ELSE 0,
       all_routes |-> loop.all_routes,
       calls |-> loop.calls,
       net |-> <<>>,
       disk |-> <<>>]

(* ----------------------------- link builders --------------------------- *)
MAPS_DIR_BASE ==
  <<"h","t","t","p","s",":","/","/","w","w","w",".","g","o","o","g","l","e",
    ".","c","o","m","/","m","a","p","s","/","d","i","r">>
WALKING_MODE_PARAM ==
  <<"!","4","m","2","!","4","m","1","!","3","e","2">>
STATIC_MAP_BASE ==
  <<"h","t","t","p","s",":","/","/","m","a","p","s",".","g","o","o","g","l",
    "e","a","p","i","s",".","c","o","m","/","m","a","p","s","/","a","p","i",
    "/","s","t","a","t","i","c","m","a","p">>
PathStyle ==
  <<"c","o","l","o","r",":","0","x","0","0","0","0","f","f","|","w","e","i",
    "g","h","t",":","3","|">>
QrPrefix == <<"q","r","_">>
PngExt == <<".","p","n","g">>
DefaultRouteId == <<"r","o","u","t","e">>

\* MapsConverter.DEFAULT_ZOOM, and zoom of create_maps_url_no_api
DEFAULT_ZOOM == 12
NoApiZoom == 13

\* max_points of convert, of create_static_map_url and of create_maps_url_no_api
ConvertMaxPoints == 25
StaticMaxPoints == 50
NoApiMaxPoints == 25

\* str(n) for an integer
RECURSIVE NatToStr(_)
NatToStr(n) ==
  IF n < 10 THEN <<DigitChars[n + 1]>>
  ELSE NatToStr(n \div 10) \o <<DigitChars[(n % 10) + 1]>>

IntToStr(n) == IF n < 0 THEN <<"-">> \o NatToStr(0 - n) ELSE NatToStr(n)

\* f"{x}" for a float holding a whole number of degrees: "50.0", "-6.0"
FormatFloat(x) == IntToStr(x) \o <<".", "0">>

\* f"{lat},{lon}"
FormatPoint(p) == FormatFloat(p[1]) \o <<",">> \o FormatFloat(p[2])

\* sep.join(parts)
RECURSIVE Join(_, _)
Join(parts, sep) ==
  IF parts = <<>> THEN <<>>
  ELSE IF Len(parts) = 1 THEN parts[1]
  ELSE LET half == Len(parts) \div 2
       IN  Join(SubSeq(parts, 1, half), sep) \o sep
             \o Join(SubSeq(parts, half + 1, Len(parts)), sep)

PathSegments(points) == [i \in 1..Len(points) |-> FormatPoint(points[i])]

CreateMapsUrl_AnchorLast(points, zoom) ==
  MAPS_DIR_BASE \o <<"/">> \o Join(PathSegments(points), <<"/">>)
    \o <<"/", "@">> \o FormatFloat(points[Len(points)][1]) \o <<",">>
    \o FormatFloat(points[Len(points)][2])
    \o <<",">> \o IntToStr(zoom) \o <<"z">> \o <<"/","d","a","t","a","=">> \o WALKING_MODE_PARAM

\* MapsConverter._create_maps_url, and the same lines of create_maps_url_no_api
CreateMapsUrl(points, zoom) ==
  MAPS_DIR_BASE \o <<"/">> \o Join(PathSegments(points), <<"/">>)
    \o <<"/", "@">> \o FormatFloat(points[1][1]) \o <<",">> \o FormatFloat(points[1][2])
    \o <<",">> \o IntToStr(zoom) \o <<"z">> \o <<"/","d","a","t","a","=">> \o WALKING_MODE_PARAM

MapsConverter_convert_NoCheck(route_data) ==
  IF ~route_data.has_points
  THEN [raised |-> "KeyError", message |-> "points", ret |-> <<>>]
  ELSE LET points == route_data.points
           simplified_points == SimplifyPoints(points, ConvertMaxPoints).pts
       IN  IF simplified_points = <<>>
           THEN [raised |-> "IndexError", message |-> "list index out of range", ret |-> <<>>]
           ELSE [raised |-> "none", message |-> "",
                 ret |-> CreateMapsUrl(simplified_points, DEFAULT_ZOOM)]

\* MapsConverter.convert
MapsConverter_convert(route_data) ==
  IF ~route_data.has_points
  THEN [raised |-> "KeyError", message |-> "points", ret |-> <<>>]
  ELSE LET points == route_data.points
       IN  IF points = <<>>
           THEN [raised |-> "ValueError", message |-> "No points found in route data",
                 ret |-> <<>>]
           ELSE [raised |-> "none", message |-> "",
                 ret |-> CreateMapsUrl(SimplifyPoints(points, ConvertMaxPoints).pts,
                                       DEFAULT_ZOOM)]

\* urllib.parse.quote_plus: letters, digits and "_.-~" are kept, a space gives
\* "+", any other character its percent code
SafeChars == {"_", ".", "-", "~"}

PercentCode(c) ==
  CASE c = ":" -> <<"%","3","A">>
    [] c = "|" -> <<"%","7","C">>
    [] c = "," -> <<"%","2","C">>
    [] c = "/" -> <<"%","2","F">>
    [] c = "=" -> <<"%","3","D">>
    [] c = "&" -> <<"%","2","6">>
    [] c = "?" -> <<"%","3","F">>
    [] c = "@" -> <<"%","4","0">>
    [] c = "!" -> <<"%","2","1">>

QuoteChar(c) ==
  IF IsLetter(c) \/ IsDigit(c) \/ c \in SafeChars THEN <<c>>
  ELSE IF c = " " THEN <<"+">>
  ELSE PercentCode(c)

RECURSIVE QuotePlus(_)
QuotePlus(s) ==
  IF s = <<>> THEN <<>>
  ELSE IF Len(s) = 1 THEN QuoteChar(s[1])
  ELSE LET half == Len(s) \div 2
       IN  QuotePlus(SubSeq(s, 1, half)) \o QuotePlus(SubSeq(s, half + 1, Len(s)))

\* urlencode(params) for the three parameters size, path, key in that order
UrlEncode(size, path, key) ==
  <<"s","i","z","e","=">> \o QuotePlus(size) \o <<"&","p","a","t","h","=">> \o QuotePlus(path)
    \o <<"&","k","e","y","=">> \o QuotePlus(key)

\* MapsConverter.create_static_map_url
create_static_map_url(api_key, route_data, width, height) ==
  IF ~route_data.has_points
  THEN [raised |-> "KeyError", message |-> "points", ret |-> <<>>]
  ELSE LET points == route_data.points
           simplified_points == SimplifyPoints(points, StaticMaxPoints).pts
           path_coords == Join(PathSegments(simplified_points), <<"|">>)
       IN  IF points = <<>>
           THEN [raised |-> "ValueError", message |-> "No points found in route data",
                 ret |-> <<>>]
           ELSE [raised |-> "none", message |-> "",
                 ret |-> STATIC_MAP_BASE \o <<"?">>
                           \o UrlEncode(IntToStr(width) \o <<"x">> \o IntToStr(height),
                                        PathStyle \o path_coords, api_key)]

\* the sampling of create_maps_url_no_api: first point, every step-th point,
\* last point
NoApiSimplify(points) ==
  LET max_points == NoApiMaxPoints
  IN  IF Len(points) > max_points
      THEN LET step == Len(points) \div (max_points - 2)
           IN  Append(SampleLoop(points, step, step, <<points[1]>>), points[Len(points)])
      ELSE points

\* create_maps_url_no_api
create_maps_url_no_api(points) ==
  IF points = <<>>
  THEN [raised |-> "ValueError", message |-> "No points provided", ret |-> <<>>]
  ELSE [raised |-> "none", message |-> "",
        ret |-> CreateMapsUrl(NoApiSimplify(points), NoApiZoom)]

\* generate_qr_code: one image file holding the url
generate_qr_code(url, output_path) ==
  [path |-> output_path, content |-> [kind |-> "qr", data |-> url]]

\* create_route_qr_code
create_route_qr_code(route_data, output_path) ==
  LET points == IF route_data.has_points THEN route_data.points ELSE <<>>
      maps_url == create_maps_url_no_api(points)
      route_id == StrLower(Replace(IF route_data.has_name THEN route_data.name
                                   ELSE DefaultRouteId, <<" ">>, <<"_">>))
      path == IF output_path # <<>> THEN output_path ELSE QrPrefix \o route_id \o PngExt
  IN  IF points = <<>>
      THEN [raised |-> "ValueError", message |-> "No points found in route data",
            ret |-> <<>>, net |-> <<>>, disk |-> <<>>]
      ELSE [raised |-> maps_url.raised, message |-> maps_url.message,
            ret |-> <<maps_url.ret, path>>, net |-> <<>>,
            disk |-> <<generate_qr_code(maps_url.ret, path)>>]

(* --------------------------- sample inputs ----------------------------- *)
Href_A ==
  <<"/","e","n","/","a","-","p","i","e","d","/","a">>
Href_B ==
  <<"h","t","t","p","s",":","/","/","w","w","w",".","m","a","l","m","e","d",
    "y","-","t","o","u","r","i","s","m","e",".","b","e","/","e","n","/","a",
    "-","p","i","e","d","/","b">>
H3_Mdy02Ferme ==
  <<"M","D","Y","0","2"," ","F","e","r","m","e">>
H3_mdy1Bois ==
  <<"m","d","y"," ","1"," ","B","o","i","s">>
H3_Mdy10 ==
  <<"M","D","Y","1","0">>
H3_Mdy02Pont ==
  <<"M","D","Y","0","2"," ","P","o","n","t">>
H3_Walk ==
  <<"W","a","l","k">>
H3_Mdy03 ==
  <<"M","D","Y","0","3">>
Th_Km ==
  <<"K","M"," ","&"," ","A","s","c","e","n","t">>
Td_11km ==
  <<"1","1"," ","k","m">>
Td_5c5km ==
  <<"5",",","5"," ","k","m">>
Td_5d5km ==
  <<"5",".","5"," ","k","m">>
Td_comma ==
  <<","," ","k","m">>
Pfx_MDY ==
  <<"M","D","Y">>
Pfx_MDY0 ==
  <<"M","D","Y","0">>
Pfx_MDYdash02 ==
  <<"M","D","Y","-","0","2">>
Pfx_mdy ==
  <<"m","d","y">>
Url_MdyFerme ==
  <<"h","t","t","p","s",":","/","/","w","w","w",".","m","a","l","m","e","d",
    "y","-","t","o","u","r","i","s","m","e",".","b","e","/","e","n","/","a",
    "-","p","i","e","d","/","f","e","r","m","e","-","l","i","b","e","r","t">>
Url_MdySlash ==
  <<"h","t","t","p","s",":","/","/","w","w","w",".","m","a","l","m","e","d",
    "y","-","t","o","u","r","i","s","m","e",".","b","e","/","e","n","/","a",
    "-","p","i","e","d","/","w","a","l","k","/">>
Url_Foreign ==
  <<"h","t","t","p","s",":","/","/","e","v","i","l",".","e","x","a","m","p",
    "l","e","/","r","o","u","t","e","/","v","i","e","w","/","x","?","i","d",
    "=","y">>
Url_Lookalike ==
  <<"h","t","t","p","s",":","/","/","n","o","t","r","o","u","t","e","y","o",
    "u",".","c","o","m","/","r","o","u","t","e","/","v","i","e","w","/","x">>
Url_NoScheme ==
  <<"n","o","t"," ","a"," ","u","r","l">>
Url_BadBracket ==
  <<"h","t","t","p",":","/","/","[","b","a","d","/","r","o","u","t","e","/",
    "v","i","e","w","/","x">>
Out_File ==
  <<"o","u","t",".","g","p","x">>
Hd_Walks ==
  <<"W","a","l","k","s">>
Hd_Mdy01Ferme ==
  <<"M","D","Y","0","1"," ","F","e","r","m","e">>
Hd_mdy7 ==
  <<"m","d","y"," ","7">>
Hd_Mdy3Amp ==
  <<"M","D","Y","3"," ","B","o","i","s"," ","&"," ","P","o","n","t">>
Hd_Info ==
  <<"I","n","f","o">>
A_ExportHref ==
  <<"/","e","x","p","o","r","t","?","i","d","=","1","&","a","m","p",";","f",
    "=","g","p","x">>
A_ClassGpx ==
  <<"b","t","n"," ","G","P","X","-","d","l">>
A_ClassBtn ==
  <<"b","t","n">>
A_AbsHref ==
  <<"h","t","t","p","s",":","/","/","d","l",".","e","x","a","m","p","l","e",
    "/","t",".","g","p","x">>
A_CirkwiHref ==
  <<"h","t","t","p","s",":","/","/","w","w","w",".","c","i","r","k","w","i",
    ".","c","o","m","/","e","x","p","o","r","t","/","g","p","x">>
A_PlainHref ==
  <<"/","e","n","/","c","o","n","t","a","c","t">>
Ct_Gpx ==
  <<"a","p","p","l","i","c","a","t","i","o","n","/","g","p","x","+","x","m",
    "l">>
Ct_Html ==
  <<"t","e","x","t","/","h","t","m","l">>
Ct_XmlUpper ==
  <<"t","e","x","t","/","X","M","L">>
Body_Xml ==
  <<"<","?","x","m","l"," ","?",">","<","g","p","x","/",">">>
Body_SpaceGpx ==
  <<" ","<","G","P","X",">">>
Body_SpaceXml ==
  <<" ","<","?","x","m","l","?",">","<","k","m","l","/",">">>
Body_Html ==
  <<"<","h","t","m","l",">">>
MalmedyDomain ==
  <<"m","a","l","m","e","d","y","-","t","o","u","r","i","s","m","e",".","b",
    "e">>
HttpsScheme ==
  <<"h","t","t","p","s">>

(* ------------------------------- inputs -------------------------------- *)
Id_MDY07 ==
  <<"M","D","Y","0","7">>
Id_MDY_7 ==
  <<"M","D","Y"," ","7">>
Id_mdy7 ==
  <<"m","d","y","7">>
Id_Mdy__07 ==
  <<"M","d","y"," "," ","0","7">>
Id_MDY7 ==
  <<"M","D","Y","7">>

IdTexts == {Hd_mdy7, Id_MDY07, Id_MDY_7, Id_mdy7, Id_Mdy__07, Id_MDY7, H3_Walk, H3_mdy1Bois}

DemoKey ==
  <<"D","E","M","O","_","A","P","I","_","K","E","Y">>
Name_Ferme ==
  <<"F","e","r","m","e"," ","L","i","b","e","r","t">>
Out_Qr ==
  <<"c","o","d","e",".","p","n","g">>

\* a track of n distinct points, and the same track with its last point repeated
Track(n) == [i \in 1..n |-> <<i, 6>>]
StutterTrack(n) == Append(Track(n), <<n, 6>>)
LongTrackLens == {25, 26, 30, 46, 48, 51}
Tracks ==
  SeqsUpTo(Points, MaxLen) \cup {Track(n) : n \in LongTrackLens} \cup {StutterTrack(47)}

RouteData(has_points, points, has_name, name) ==
  [has_points |-> has_points, points |-> points, has_name |-> has_name, name |-> name]

RouteDatas ==
  {RouteData(TRUE, points, TRUE, Name_Ferme) : points \in Tracks}
    \cup {RouteData(TRUE, points, FALSE, <<>>) : points \in SeqsUpTo(Points, 1)}
    \cup {RouteData(FALSE, <<>>, TRUE, Name_Ferme)}

ApiKeys == {DemoKey}
ImageWidths == {600}
ImageHeights == {400}
QrOutputPaths == {<<>>, Out_Qr}

SourceChoices == {"routeyou", "wikiloc", "all"}
SearchFaults == [{"RouteYou", "Wikiloc"} -> {"none", "Exception", "RequestException"}]

Locations == {"Malmedy"}

DistanceLimits ==
  {[num |-> 5, den |-> 1], [num |-> 83, den |-> 10],
   [num |-> 11, den |-> 1], [num |-> 20, den |-> 1]}

Prefixes == {<<>>, Pfx_MDY, Pfx_MDY0, Pfx_MDYdash02, Pfx_mdy}

Block(href, has_table, has_h3, h3, th, has_td, td, raises) ==
  [href |-> href, has_table |-> has_table, has_h3 |-> has_h3, h3 |-> h3,
   th |-> th, has_td |-> has_td, td |-> td, raises |-> raises]

ListingBlocks ==
  {Block(Href_A, TRUE, TRUE, H3_Mdy02Ferme, Th_Km, TRUE, Td_11km, "none"),
   Block(Href_B, TRUE, TRUE, H3_mdy1Bois, Th_Km, TRUE, Td_5c5km, "none"),
   Block(Href_A, TRUE, TRUE, H3_Mdy10, Th_Km, TRUE, Td_5d5km, "none"),
   Block(Href_B, TRUE, TRUE, H3_Mdy02Pont, <<>>, FALSE, <<>>, "none"),
   Block(Href_A, TRUE, TRUE, H3_Mdy03, Th_Km, TRUE, Td_comma, "none"),
   Block(Href_A, TRUE, TRUE, H3_Walk, Th_Km, TRUE, Td_11km, "none"),
   Block(Href_A, FALSE, FALSE, <<>>, <<>>, FALSE, <<>>, "none"),
   Block(Href_B, TRUE, FALSE, <<>>, Th_Km, TRUE, Td_11km, "none"),
   Block(Href_A, TRUE, TRUE, H3_Mdy02Ferme, Th_Km, TRUE, Td_11km, "Exception")}

ListingPages ==
  {[status |-> "RequestException", route_links |-> <<>>],
   [status |-> "Exception", route_links |-> <<>>]}
  \cup {[status |-> "none", route_links |-> b] : b \in SeqsUpTo(ListingBlocks, MaxBlocks)}

DownloadUrls ==
  {RY_BASE_URL \o RY_Path1, WL_BASE_URL \o WL_Path1, Url_MdyFerme, Url_MdySlash,
   Url_Foreign, Url_Lookalike, Url_NoScheme, Url_BadBracket}

OutputNames == {<<>>, Out_File}

Heading(tag, text) == [tag |-> tag, text |-> text]

Headings ==
  {Heading("h1", Hd_Walks), Heading("h1", Hd_Mdy01Ferme), Heading("h2", Hd_mdy7),
   Heading("h3", Hd_Mdy3Amp), Heading("h2", Hd_Info)}

Anchor(id, class, href) == [id |-> id, class |-> class, href |-> href]

AnchorLists ==
  {<<>>,
   <<Anchor(ExporterId, <<>>, A_ExportHref)>>,
   <<Anchor(<<>>, A_ClassGpx, A_AbsHref)>>,
   <<Anchor(<<>>, A_ClassBtn, A_CirkwiHref)>>,
   <<Anchor(<<>>, A_ClassBtn, A_PlainHref)>>,
   <<Anchor(<<>>, A_ClassBtn, A_CirkwiHref), Anchor(ExporterId, <<>>, A_ExportHref)>>}

DetailPages ==
  {[status |-> "RequestException", headings |-> <<>>, anchors |-> <<>>],
   [status |-> "Exception", headings |-> <<>>, anchors |-> <<>>]}
  \cup {[status |-> "none", headings |-> h, anchors |-> a] :
          h \in SeqsUpTo(Headings, MaxHeadings), a \in AnchorLists}

Response(status, content_type, text) ==
  [status |-> status, content_type |-> content_type, text |-> text]

NotRequested == Response("not requested", <<>>, <<>>)

ArtifactResponses ==
  {Response("RequestException", <<>>, <<>>),
   Response("none", Ct_Gpx, Body_Xml),
   Response("none", Ct_Html, Body_Xml),
   Response("none", Ct_Html, Body_SpaceGpx),
   Response("none", Ct_Html, Body_SpaceXml),
   Response("none", Ct_XmlUpper, Body_Html),
   Response("none", Ct_Html, Body_Html)}

\* requests sends nothing for a url without http(s) scheme and host: it raises
\* MissingSchema / InvalidSchema / InvalidURL, all RequestException
Fetchable(url) ==
  LET u == UrlParse(url)
  IN  ~u.raised /\ u.scheme \in {Http, HttpsScheme} /\ u.netloc # <<>>

(* ------------------------------ actions -------------------------------- *)
Init ==
  /\ pc = "idle"
  /\ op = "none"
  /\ inp = <<>>
  /\ out = <<>>
  /\ net = <<>>
  /\ disk = <<>>

Finish(name, r) ==
  /\ pc' = "done"
  /\ op' = name
  /\ out' = r
  /\ net' = r.net
  /\ disk' = r.disk

Simplify ==
  /\ pc = "idle"
  /\ \E points \in SeqsUpTo(Points, MaxLen), max_points \in 1..MaxN :
       /\ inp' = [points |-> points, max_points |-> max_points]
       /\ out' = SimplifyPoints(points, max_points)
  /\ pc' = "done"
  /\ op' = "simplify"
  /\ UNCHANGED <<net, disk>>

RouteYouSearch ==
  /\ pc = "idle"
  /\ \E location \in Locations, distance_km \in DistanceLimits, prefix \in Prefixes :
       /\ inp' = [location |-> location, distance_km |-> distance_km, prefix |-> prefix]
       /\ Finish("RouteYou.search", RouteYou_search(location, distance_km, prefix))

WikilocSearch ==
  /\ pc = "idle"
  /\ \E location \in Locations, distance_km \in DistanceLimits, prefix \in Prefixes :
       /\ inp' = [location |-> location, distance_km |-> distance_km, prefix |-> prefix]
       /\ Finish("Wikiloc.search", Wikiloc_search(location, distance_km, prefix))

MalmedySearch ==
  /\ pc = "idle"
  /\ \E location \in Locations, distance_km \in DistanceLimits, prefix \in Prefixes,
        page \in ListingPages :
       /\ inp' = [location |-> location, distance_km |-> distance_km, prefix |-> prefix,
                  page |-> page]
       /\ Finish("Malmedy.search", Malmedy_search(location, distance_km, prefix, page))

RouteYouDownload ==
  /\ pc = "idle"
  /\ \E url \in DownloadUrls, output_filename \in OutputNames :
       /\ inp' = [url |-> url, output_filename |-> output_filename]
       /\ Finish("RouteYou.download", RouteYou_download(url, output_filename))

WikilocDownload ==
  /\ pc = "idle"
  /\ \E url \in DownloadUrls, output_filename \in OutputNames :
       /\ inp' = [url |-> url, output_filename |-> output_filename]
       /\ Finish("Wikiloc.download", Wikiloc_download(url, output_filename))

MalmedyDownload ==
  /\ pc = "idle"
  /\ \E url \in DownloadUrls, output_filename \in OutputNames, page \in DetailPages :
       /\ Fetchable(url) \/ page.status = "RequestException"
       /\ \E art \in IF page.status = "none" /\ FindGpxLink(page.anchors).found
                     THEN ArtifactResponses ELSE {NotRequested} :
            /\ inp' = [url |-> url, output_filename |-> output_filename,
                       page |-> page, art |-> art]
            /\ Finish("Malmedy.download", Malmedy_download(url, output_filename, page, art))

CliDownload ==
  /\ pc = "idle"
  /\ \E url \in DownloadUrls, output \in OutputNames :
       /\ inp' = [url |-> url, output_filename |-> output]
       /\ Finish("cli.download", download_route(url, output))

\* the identifier extraction applied to two heading texts
NormalizeIds ==
  /\ pc = "idle"
  /\ \E a \in IdTexts, b \in IdTexts :
       /\ inp' = [a |-> a, b |-> b]
       /\ out' = [a |-> ExtractId(a), b |-> ExtractId(b)]
  /\ pc' = "done"
  /\ op' = "normalize"
  /\ UNCHANGED <<net, disk>>

Convert ==
  /\ pc = "idle"
  /\ \E route_data \in RouteDatas :
       /\ inp' = [route_data |-> route_data]
       /\ out' = MapsConverter_convert(route_data)
  /\ pc' = "done"
  /\ op' = "convert"
  /\ UNCHANGED <<net, disk>>

StaticMapUrl ==
  /\ pc = "idle"
  /\ \E api_key \in ApiKeys, route_data \in RouteDatas,
        width \in ImageWidths, height \in ImageHeights :
       /\ inp' = [api_key |-> api_key, route_data |-> route_data,
                  width |-> width, height |-> height]
       /\ out' = create_static_map_url(api_key, route_data, width, height)
  /\ pc' = "done"
  /\ op' = "create_static_map_url"
  /\ UNCHANGED <<net, disk>>

MapsUrlNoApi ==
  /\ pc = "idle"
  /\ \E points \in Tracks :
       /\ inp' = [points |-> points]
       /\ out' = create_maps_url_no_api(points)
  /\ pc' = "done"
  /\ op' = "create_maps_url_no_api"
  /\ UNCHANGED <<net, disk>>

RouteQrCode ==
  /\ pc = "idle"
  /\ \E route_data \in RouteDatas, output_path \in QrOutputPaths :
       /\ inp' = [route_data |-> route_data, output_path |-> output_path]
       /\ Finish("create_route_qr_code", create_route_qr_code(route_data, output_path))

CliSearch ==
  /\ pc = "idle"
  /\ \E location \in Locations, distance_km \in DistanceLimits, prefix \in Prefixes,
        source \in SourceChoices, faults \in SearchFaults :
       /\ inp' = [location |-> location, distance_km |-> distance_km, prefix |-> prefix,
                  source |-> source, faults |-> faults]
       /\ Finish("search_routes",
                 search_routes(location, distance_km, prefix, source, faults))

Exit ==
  /\ pc = "done"
  /\ pc' = "idle"
  /\ op' = "none"
  /\ inp' = <<>>
  /\ out' = <<>>
  /\ net' = <<>>
  /\ disk' = <<>>

Next ==
  \/ Simplify
  \/ RouteYouSearch
  \/ WikilocSearch
  \/ MalmedySearch
  \/ RouteYouDownload
  \/ WikilocDownload
  \/ MalmedyDownload
  \/ CliDownload
  \/ NormalizeIds

  \/ Convert
  \/ StaticMapUrl
  \/ MapsUrlNoApi
  \/ RouteQrCode

  \/ CliSearch

  \/ Exit

Spec == Init /\ [][Next]_vars

(* ------------------------------ claims --------------------------------- *)
IsSubsequence(r, p) ==
  \E idx \in [1..Len(r) -> 1..Len(p)] :
    /\ \A k \in 1..Len(r) : r[k] = p[idx[k]]
    /\ \A k \in 1..(Len(r) - 1) : idx[k] < idx[k + 1]

\* C1: for every point sequence P and every maxCount N >= 2,
\* _simplify_points(P, N) returns at most N points.
C1_AtMostMaxCount ==
  (op = "simplify" /\ inp.max_points >= 2)
    => (out.raised = "none" /\ Len(out.pts) <= inp.max_points)

\* C2: for len(P) > N >= 2 the result of _simplify_points(P, N) is a
\* subsequence of P taken at strictly increasing indices, its first element
\* is P[0] and its last element is P[len-1].
C2_SubsequenceWithEndpoints ==
  (op = "simplify" /\ inp.max_points >= 2 /\ Len(inp.points) > inp.max_points)
    => /\ out.raised = "none"
       /\ Len(out.pts) >= 1
       /\ IsSubsequence(out.pts, inp.points)
       /\ out.pts[1] = inp.points[1]
       /\ out.pts[Len(out.pts)] = inp.points[Len(inp.points)]

C2_Witness ==
  /\ op = "simplify"
  /\ inp.max_points = 3
  /\ Len(inp.points) = 5
  /\ inp.points[5] # inp.points[3]
  /\ Len(out.pts) = 3

\* C3: for len(P) <= maxCount, _simplify_points(P, maxCount) returns P
\* itself: same points, same order, nothing added or dropped.
C3_ShortInputUnchanged ==
  (op = "simplify" /\ Len(inp.points) <= inp.max_points)
    => (out.raised = "none" /\ out.pts = inp.points)

C3_Witness ==
  /\ op = "simplify"
  /\ Len(inp.points) = inp.max_points
  /\ Len(inp.points) >= 2
  /\ out.pts = inp.points

DownloadOps == {"RouteYou.download", "Wikiloc.download", "Malmedy.download"}
SearchOps == {"RouteYou.search", "Wikiloc.search", "Malmedy.search"}

\* the route id the detail page of the call gives, <<>> when the page was not read
PageRouteId == IF inp.page.status = "none" THEN ExtractHeading(inp.page.headings).route_id
               ELSE <<>>

\* some step of the Malmedy download failed
DownloadFailed ==
  \/ inp.page.status # "none"
  \/ ~FindGpxLink(inp.page.anchors).found
  \/ inp.art.status # "none"
  \/ ~IsGpxResponse(inp.art)

C5_PlaceholderValid ==
  (op \in DownloadOps \cup {"cli.download"})
    => \A k \in 1..Len(disk) :
         disk[k].content.kind = "sample"
           => LET parsed == GPXParse(disk[k].content)
                  n == Len(parsed.points)
              IN  /\ parsed.raised = "none"
                  /\ n >= 7
                  /\ n - 2 >= 6
                  /\ parsed.points[n] = parsed.points[1]

\* host name of the requested url, lower case
HostOf(url) == StrLower(UrlParse(url).netloc)

\* the host is the domain itself or a subdomain of it
Owns(domain, host) == host = domain \/ EndsWith(host, <<".">> \o domain)

AdapterDomain ==
  IF op = "RouteYou.download" THEN RouteYouDomain
  ELSE IF op = "Wikiloc.download" THEN WikilocDomain
  ELSE MalmedyDomain

\* C6: a download request for a url whose host the adapter does not own fails
\* with an UnsupportedSource error before any network request is made and
\* before any artifact is written, in the CLI dispatch and in each adapter.
C6_ForeignHostRejected ==
  /\ (op \in DownloadOps /\ ~Owns(AdapterDomain, HostOf(inp.url)))
       => (out.raised # "none" /\ net = <<>> /\ disk = <<>>)
  /\ (op = "cli.download" /\ ~Owns(RouteYouDomain, HostOf(inp.url))
                          /\ ~Owns(WikilocDomain, HostOf(inp.url)))
       => (out.ret = 1 /\ net = <<>> /\ disk = <<>>)

\* the url has no scheme-and-host part that urlparse can read
Unparseable(url) == UrlParse(url).raised \/ UrlParse(url).netloc = <<>>

\* C7: a download request whose url cannot be parsed fails fast with a
\* ValueError for every adapter: no artifact file is written and no
\* placeholder is synthesized.
C7_UnparseableUrlRejected ==
  (op \in DownloadOps /\ Unparseable(inp.url))
    => (out.raised = "ValueError" /\ disk = <<>>)

\* what one listing block yields when it can be parsed
BlockParseable(b) == b.raises = "none" /\ b.has_table /\ b.has_h3 /\ MdyMatch(b.h3).found
BlockId(b) == NormalizeId(SubSeq(b.h3, MdyMatch(b.h3).first, MdyMatch(b.h3).last))
BlockUrl(b) == IF StartsWith(b.href, Http) THEN b.href ELSE MDY_BASE_URL \o b.href
BlockDistance(b) ==
  IF Contains(b.th, KmLabel) /\ b.has_td
  THEN ParseFloat(Replace(DistanceMatch(b.td), <<",">>, <<".">>))
  ELSE [ok |-> FALSE, num |-> 0, den |-> 1]

\* the block passes the prefix filter and the distance filter of the call
BlockPasses(b) ==
  /\ StartsWith(BlockId(b), inp.prefix)
  /\ (~BlockDistance(b).ok \/ FloatLE(BlockDistance(b), inp.distance_km))

SamplePasses(route) ==
  /\ StartsWith(route.title, inp.prefix)
  /\ (~ParseFloat(route.distance).ok \/ FloatLE(ParseFloat(route.distance), inp.distance_km))

SampleRoutesOf(name) == IF name = "RouteYou.search" THEN RY_sample_routes ELSE WL_sample_routes

C9_SearchSorted ==
  (op = "Malmedy.search")
    => \A i \in 1..Len(out.ret) : \A j \in 1..Len(out.ret) :
         i < j => ~LexLess(out.ret[j].route_id, out.ret[i].route_id)

C9_Witness ==
  /\ op = "Malmedy.search"
  /\ Len(inp.page.route_links) = 2
  /\ inp.page.route_links[1].h3 = H3_mdy1Bois
  /\ inp.page.route_links[2].h3 = H3_Mdy02Pont
  /\ Len(out.ret) = 2
  /\ out.ret[1].route_id = <<"M", "D", "Y", "0", "2">>
  /\ out.ret[2].route_id = <<"M", "D", "Y", "1">>

\* C10: search never raises; a malformed listing block is skipped and every
\* other well-formed block that passes the filters is still returned; a
\* failure of the listing fetch yields an empty result.
C10_SearchNeverRaises ==
  /\ (op \in SearchOps) => out.raised = "none"
  /\ (op = "Malmedy.search" /\ inp.page.status # "none") => out.ret = <<>>
  /\ (op = "Malmedy.search" /\ inp.page.status = "none") =>
       \A i \in 1..Len(inp.page.route_links) :
         LET b == inp.page.route_links[i]
         IN  (BlockParseable(b) /\ BlockPasses(b))
               => \E k \in 1..Len(out.ret) :
                    out.ret[k].route_id = BlockId(b) /\ out.ret[k].url = BlockUrl(b)

C10_Witness ==
  /\ op = "Malmedy.search"
  /\ Len(inp.page.route_links) = 2
  /\ inp.page.route_links[1].raises = "Exception"
  /\ BlockParseable(inp.page.route_links[2])
  /\ out.raised = "none"
  /\ Len(out.ret) = 1

\* the text is a bare code: the pattern matches all of it
BareCode(text) ==
  MdyMatch(text).found /\ MdyMatch(text).first = 1 /\ MdyMatch(text).last = Len(text)

\* the text without whitespace, in lower case
Fold(text) == StrLower(SelectSeq(text, LAMBDA c : c \notin SpaceChars))

\* the identifier is in canonical form: no whitespace, no lower-case letter
Canonical(id) ==
  \A i \in 1..Len(id) : id[i] \notin SpaceChars /\ IndexIn(id[i], LowerLetters) = 0

\* normalization is idempotent, insensitive to case and to whitespace between
\* prefix and digits, and gives a canonical form
NormalizeLaws ==
  /\ ExtractId(out.a) = out.a
  /\ Canonical(out.a)
  /\ (BareCode(inp.a) /\ BareCode(inp.b) /\ Fold(inp.a) = Fold(inp.b)) => out.a = out.b

\* C11 (as claimed): identifier normalization is idempotent and
\* case/whitespace-insensitive, and yields the canonical form:
\* normalize("mdy 7") == normalize("MDY07") == "MDY07".
C11_NormalizeZeroPadded ==
  (op = "normalize")
    => /\ NormalizeLaws
       /\ (inp.a = Hd_mdy7 /\ inp.b = Id_MDY07) => (out.a = out.b /\ out.b = Id_MDY07)

\* C11 (amended): identifier normalization is idempotent, insensitive to case
\* and to whitespace between prefix and digits, and yields upper-case letters
\* with no whitespace; digits are kept as written, without zero padding:
\* normalize("mdy 7") == normalize("MDY7") == "MDY7", normalize("MDY07") == "MDY07".
C11_NormalizeKeepsDigits ==
  (op = "normalize")
    => /\ NormalizeLaws
       /\ (inp.a = Hd_mdy7 /\ inp.b = Id_MDY7) => (out.a = out.b /\ out.b = Id_MDY7)
       /\ (inp.a = Id_MDY07) => out.a = Id_MDY07

C11_Witness ==
  /\ op = "normalize"
  /\ inp.a = Hd_mdy7
  /\ inp.b = Id_MDY7
  /\ out.a = Id_MDY7
  /\ out.b = Id_MDY7

\* the parsed number equals num/den
FloatIs(f, num, den) == f.ok /\ f.num * den = num * f.den

\* C12: distance parsing reads the numeric token of the distance cell with
\* either ',' or '.' as decimal separator ("5,5 km" -> 5.5, "5.5 km" -> 5.5,
\* "11 km" -> 11.0), and a token that cannot be parsed as a number yields a
\* summary whose distance is absent, without raising.
C12_DistanceParsed ==
  (/\ op = "Malmedy.search"
   /\ inp.page.status = "none"
   /\ Len(inp.page.route_links) = 1
   /\ BlockParseable(inp.page.route_links[1])
   /\ Contains(inp.page.route_links[1].th, KmLabel)
   /\ inp.page.route_links[1].has_td
   /\ Len(out.ret) = 1)
    => LET td == inp.page.route_links[1].td
           distance == out.ret[1].distance
       IN  /\ out.raised = "none"
           /\ (td = Td_11km) => FloatIs(ParseFloat(distance), 11, 1)
           /\ (td = Td_5c5km) => FloatIs(ParseFloat(distance), 11, 2)
           /\ (td = Td_5d5km) => FloatIs(ParseFloat(distance), 11, 2)
           /\ (td = Td_comma) => distance = NotAvailable

\* s.split(sep) for a one-character separator
RECURSIVE SplitOn(_, _)
SplitOn(s, sep) ==
  LET at == {i \in 1..Len(s) : s[i] = sep}
      first == CHOOSE i \in at : \A j \in at : i <= j
  IN  IF at = {} THEN <<s>>
      ELSE <<SubSeq(s, 1, first - 1)>> \o SplitOn(SubSeq(s, first + 1, Len(s)), sep)

\* the number of places where sub occurs in s
CountOcc(s, sub) ==
  Cardinality({i \in 1..(Len(s) - Len(sub) + 1) : SubSeq(s, i, i + Len(sub) - 1) = sub})

\* the text reads as the two coordinates of the point, "lat,lon"
SegmentIs(text, p) ==
  LET fields == SplitOn(text, ",")
  IN  /\ Len(fields) = 2
      /\ FloatIs(ParseFloat(fields[1]), p[1], 1)
      /\ FloatIs(ParseFloat(fields[2]), p[2], 1)

\* the text reads "@lat,lon,<zoom>z" for the point and the zoom level
AnchorIs(text, p, zoom) ==
  LET fields == SplitOn(text, ",")
  IN  /\ Len(fields) = 3
      /\ Head(fields[1]) = "@"
      /\ FloatIs(ParseFloat(Tail(fields[1])), p[1], 1)
      /\ FloatIs(ParseFloat(fields[2]), p[2], 1)
      /\ fields[3] = IntToStr(zoom) \o <<"z">>

\* the url is the directions base, one segment per point of kept in order, the
\* view anchor at the first point of kept, and the pedestrian token
DirectionsUrlOf(url, kept, zoom) ==
  LET parts == SplitOn(url, "/")
      n == Len(kept)
  IN  /\ Len(parts) = n + 7
      /\ Join(SubSeq(parts, 1, 5), <<"/">>) = MAPS_DIR_BASE
      /\ \A i \in 1..n : SegmentIs(parts[5 + i], kept[i])
      /\ AnchorIs(parts[n + 6], kept[1], zoom)
      /\ parts[n + 7] = <<"d","a","t","a","=">> \o WALKING_MODE_PARAM

\* C13: for every non-empty point sequence, convert returns one URL made of
\* the fixed directions base, then one "lat,lon" path segment per simplified
\* point in walking order, then the suffix "/@lat1,lon1,<zoom>z/data=<token>"
\* anchored at the first point; for a single-point input the coordinate
\* appears exactly twice.
C13_ConvertUrlShape ==
  (op = "convert" /\ inp.route_data.has_points /\ inp.route_data.points # <<>>)
    => LET points == inp.route_data.points
       IN  /\ out.raised = "none"
           /\ DirectionsUrlOf(out.ret, SimplifyPoints(points, ConvertMaxPoints).pts,
                              DEFAULT_ZOOM)
           /\ (Len(points) = 1) => CountOcc(out.ret, FormatPoint(points[1])) = 2

C13_Witness ==
  /\ op = "convert"
  /\ Len(inp.route_data.points) = 48
  /\ out.raised = "none"
  /\ Len(SplitOn(out.ret, "/")) = 25 + 7

C13_WitnessSinglePoint ==
  /\ op = "convert"
  /\ Len(inp.route_data.points) = 1
  /\ CountOcc(out.ret, FormatPoint(inp.route_data.points[1])) = 2

LinkOps == {"convert", "create_static_map_url", "create_maps_url_no_api",
            "create_route_qr_code"}

\* the point sequence the link-building call was given
InputPoints ==
  IF op = "create_maps_url_no_api" THEN inp.points ELSE inp.route_data.points

InputHasPoints ==
  IF op = "create_maps_url_no_api" THEN TRUE ELSE inp.route_data.has_points

\* C14: building a mapping link from an empty point sequence fails with a
\* ValueError and produces no URL, for convert, create_static_map_url,
\* create_maps_url_no_api and create_route_qr_code, before any other step
\* (nothing is written).
C14_EmptyPointsRejected ==
  (op \in LinkOps /\ InputHasPoints /\ InputPoints = <<>>)
    => /\ out.raised = "ValueError"
       /\ out.ret = <<>>
       /\ disk = <<>>
       /\ net = <<>>

C14_Witness ==
  /\ op = "convert"
  /\ inp.route_data.has_points
  /\ inp.route_data.points = <<>>
  /\ out.raised = "ValueError"

\* C15: the title (route name) of every record produced by download is never
\* empty: when no heading supplies a name, the title falls back to a non-empty
\* default generated from the URL path slug, for every URL accepted by the
\* adapter, including URLs that end with a slash.
C15_TitleNeverEmpty ==
  (op \in DownloadOps \cup {"cli.download"})
    => \A k \in 1..Len(disk) :
         disk[k].content.kind = "sample"
           => /\ disk[k].content.trk_name # <<>>
              /\ disk[k].content.metadata_name # <<>>

\* C16: within the result of one search call on one source, normalized
\* identifiers are unique: no two returned summaries carry the same
\* identifier, whatever blocks the listing page contains.
C16_IdentifiersUnique ==
  (op = "Malmedy.search")
    => \A i, j \in 1..Len(out.ret) :
         (i # j) => out.ret[i].route_id # out.ret[j].route_id

\* the waypoint segments of a directions url, parsed back into points
WaypointSegments(url) ==
  LET parts == SplitOn(url, "/")
  IN  SubSeq(parts, 6, Len(parts) - 2)

\* the segments read as points of the track, taken in the order of the track
RECURSIVE SegmentsFollow(_, _)
SegmentsFollow(segments, points) ==
  IF segments = <<>> THEN TRUE
  ELSE IF points = <<>> THEN FALSE
  ELSE IF SegmentIs(Head(segments), Head(points))
  THEN SegmentsFollow(Tail(segments), Tail(points))
  ELSE SegmentsFollow(segments, Tail(points))

\* C17: create_maps_url_no_api emits at most 25 waypoint path segments for
\* every non-empty input, always including the first and the last input point,
\* with the kept points in their original order.
C17_NoApiAtMost25 ==
  (op = "create_maps_url_no_api" /\ inp.points # <<>>)
    => LET segments == WaypointSegments(out.ret)
           n == Len(segments)
       IN  /\ out.raised = "none"
           /\ n <= 25
           /\ SegmentIs(segments[1], inp.points[1])
           /\ SegmentIs(segments[n], inp.points[Len(inp.points)])
           /\ SegmentsFollow(segments, inp.points)

\* the identifier of the first heading with the tag whose text matches the
\* pattern, <<>> when there is none
RECURSIVE FirstIdWithTag(_, _)
FirstIdWithTag(headings, tag) ==
  IF headings = <<>> THEN <<>>
  ELSE IF Head(headings).tag = tag /\ ExtractId(Head(headings).text) # <<>>
  THEN ExtractId(Head(headings).text)
  ELSE FirstIdWithTag(Tail(headings), tag)

\* the identifier chosen in priority order h1, then h2, then h3
PriorityId(headings) ==
  IF FirstIdWithTag(headings, "h1") # <<>> THEN FirstIdWithTag(headings, "h1")
  ELSE IF FirstIdWithTag(headings, "h2") # <<>> THEN FirstIdWithTag(headings, "h2")
  ELSE FirstIdWithTag(headings, "h3")

\* C18: in detail-page extraction the identifier comes from the first matching
\* heading in priority order h1, then h2, then h3, wherever they appear in the
\* document; if no heading matches, the identifier is absent (seen in the
\* generated file name, malmedy_<identifier>.gpx or malmedy_<slug>.gpx).
C18_HeadingPriority ==
  (/\ op = "Malmedy.download"
   /\ inp.page.status = "none"
   /\ inp.output_filename = <<>>
   /\ out.raised = "none")
    => out.ret = SaveGpxPath(LiveFilename(<<>>, PriorityId(inp.page.headings), inp.url))

\* the Content-Type names gpx or xml, in any letter case
ContentTypeIndicates(content_type) ==
  Contains(StrLower(content_type), GpxWord) \/ Contains(StrLower(content_type), XmlWord)

\* the three conditions as stated: the body itself starts with "<?xml", the
\* body itself contains "<gpx"
AcceptedAsStated(art) ==
  \/ ContentTypeIndicates(art.content_type)
  \/ StartsWith(art.text, XmlDecl)
  \/ Contains(art.text, GpxTag)

\* the three conditions with the body taken without surrounding whitespace for
\* the declaration and in any letter case for the root-tag marker
AcceptedLenient(art) ==
  \/ ContentTypeIndicates(art.content_type)
  \/ StartsWith(Strip(art.text), XmlDecl)
  \/ Contains(StrLower(art.text), GpxTag)

\* the export link of the page was fetched and answered
ArtifactFetched ==
  /\ inp.page.status = "none"
  /\ FindGpxLink(inp.page.anchors).found
  /\ inp.art.status = "none"

\* C19 (as claimed): a fetched artifact is saved as the live artifact only if
\* its Content-Type indicates gpx/xml, or its body starts with an XML
\* declaration, or its body contains the GPX root-tag marker; a fetched body
\* meeting none of these is never written to disk, and the call then writes
\* the placeholder instead.
C19_ArtifactValidated ==
  (op = "Malmedy.download" /\ out.raised = "none")
    => /\ Len(disk) = 1
       /\ (disk[1].content.kind = "fetched")
            => (ArtifactFetched /\ AcceptedAsStated(inp.art))
       /\ (ArtifactFetched /\ ~AcceptedAsStated(inp.art))
            => disk[1].content.kind = "sample"

\* C19 (amended): a fetched artifact is saved as the live artifact only if its
\* Content-Type indicates gpx/xml, or its body starts, after surrounding
\* whitespace is removed, with an XML declaration, or its body contains the
\* GPX root-tag marker in any letter case; a fetched body meeting none of
\* these is never written to disk, and the call then writes the placeholder.
C19_ArtifactValidatedLenient ==
  (op = "Malmedy.download" /\ out.raised = "none")
    => /\ Len(disk) = 1
       /\ (disk[1].content.kind = "fetched")
            => (ArtifactFetched /\ AcceptedLenient(inp.art)
                /\ disk[1].content.body = inp.art.text)
       /\ (ArtifactFetched /\ ~AcceptedLenient(inp.art))
            => disk[1].content.kind = "sample"

C19_Witness ==
  /\ op = "Malmedy.download"
  /\ ArtifactFetched
  /\ ~AcceptedLenient(inp.art)
  /\ Len(disk) = 1
  /\ disk[1].content.kind = "sample"

C19_WitnessLive ==
  /\ op = "Malmedy.download"
  /\ ArtifactFetched
  /\ inp.art.text = Body_SpaceXml
  /\ Len(disk) = 1
  /\ disk[1].content.kind = "fetched"

\* the value of --source that selects the named source alone
StrOfSource(name) == IF name = "RouteYou" THEN "routeyou" ELSE "wikiloc"

Range(s) == {s[i] : i \in 1..Len(s)}

\* what the named source contributes to the combined list: nothing when its
\* search raised, else its sample routes that pass both filters
ExpectedFrom(name) ==
  IF inp.faults[name] # "none" THEN <<>>
  ELSE SelectSeq(IF name = "RouteYou" THEN RY_sample_routes ELSE WL_sample_routes,
                 SamplePasses)

\* C20: when several sources are queried by search_routes, each selected
\* source is searched exactly once, one after another in the fixed order
\* RouteYou, Wikiloc; an exception raised by one source's search is caught at
\* the call site, does not propagate, and does not prevent any later source
\* from being searched, and the results of the sources that succeeded are all
\* kept in the combined list.
C20_SourcesSequentialIsolated ==
  (op = "search_routes")
    => /\ out.raised = "none"
       /\ out.calls = SelectSeq(<<"RouteYou", "Wikiloc">>,
                                LAMBDA name : inp.source \in {StrOfSource(name), "all"})
       /\ out.all_routes =
            (IF "RouteYou" \in Range(out.calls) THEN ExpectedFrom("RouteYou") ELSE <<>>)
              \o (IF "Wikiloc" \in Range(out.calls) THEN ExpectedFrom("Wikiloc") ELSE <<>>)
       /\ out.ret = IF out.all_routes = <<>> THEN 1 ELSE 0

C20_Witness ==
  /\ op = "search_routes"
  /\ inp.source = "all"
  /\ inp.faults["RouteYou"] = "Exception"
  /\ inp.faults["Wikiloc"] = "none"
  /\ out.calls = <<"RouteYou", "Wikiloc">>
  /\ out.all_routes # <<>>
  /\ out.raised = "none"

\* the export link of the page was found, so its fetch was attempted
ArtifactRequested ==
  inp.page.status = "none" /\ FindGpxLink(inp.page.anchors).found

\* C21: every adapter call issues a bounded sequence of network requests with
\* no retry: search issues at most one request (the listing fetch); download
\* issues at most two, the detail-page fetch followed by at most one artifact
\* fetch, and the artifact fetch happens only after the detail fetch succeeded
\* and an export link was found; a failed or timed-out request is never
\* re-issued and the call goes to the fallback path (download) or returns no
\* results (search).
C21_BoundedRequestsNoRetry ==
  /\ (op \in SearchOps) => Len(net) <= 1
  /\ (op = "Malmedy.search")
       => /\ \A k \in 1..Len(net) : net[k] = [method |-> "GET", url |-> SIGNPOSTED_WALKS_URL]
          /\ (inp.page.status = "RequestException")
               => (out.raised = "none" /\ out.ret = <<>>)
  /\ (op \in DownloadOps \cup {"cli.download"}) => Len(net) <= 2
  /\ (op = "Malmedy.download")
       => /\ Len(net) >= 1
          /\ net[1] = [method |-> "GET", url |-> inp.url]
          /\ (Len(net) = 2) <=> ArtifactRequested
          /\ (inp.page.status = "RequestException"
              \/ (ArtifactRequested /\ inp.art.status = "RequestException"))
               => /\ out.raised = "none"
                  /\ Len(disk) = 1
                  /\ disk[1].content.kind = "sample"

C21_Witness ==
  /\ op = "Malmedy.download"
  /\ ArtifactRequested
  /\ inp.art.status = "RequestException"
  /\ Len(net) = 2
  /\ net[1] # net[2]
  /\ Len(disk) = 1
  /\ disk[1].content.kind = "sample"
====
